---- MODULE Spec2Model ----
(***************************************************************************)
(* A model of the crate `quantified` (src/lib.rs): the four-variant sum    *)
(* type Quantified<T> and its operations map, as_ref, as_mut, as_deref,    *)
(* as_deref_mut, and the derived equality and order.                       *)
(*                                                                         *)
(* A client program owns two instances: `x : Quantified<i32>` and          *)
(* `text : Quantified<String>`.  References are modelled as places: a      *)
(* `&T` obtained from an instance is the address of that instance's        *)
(* payload field; a String is {ptr, len, cap} over a heap buffer, and a    *)
(* `&str` is the fat pointer {ptr, len} into the same buffer.              *)
(***************************************************************************)
EXTENDS Integers, Sequences, FiniteSets, TLC

\* ---- bounds -------------------------------------------------------------
MaxVal == 2
MaxLen == 2
NumAddrs == 2

Val == 0..MaxVal
Addrs == 1..NumAddrs
\* bytes '!', 'H', 'h'
Chars == {33, 72, 104}
Strings == UNION {[1..n -> Chars] : n \in 0..MaxLen}
Vars == {"x", "text"}

\* ---- the type ------------------------------------------------------------
NoneQ == [tag |-> "None"]
SomeQ(v) == [tag |-> "Some", val |-> v]
ExcludingQ(v) == [tag |-> "Excluding", val |-> v]
AllQ == [tag |-> "All"]
Tags == {"None", "Some", "Excluding", "All"}
HasPayload(q) == q.tag \in {"Some", "Excluding"}

Quantified(T) == {NoneQ, AllQ} \cup {SomeQ(v) : v \in T} \cup {ExcludingQ(v) : v \in T}

VARIABLES mem, heap, live, out, calls, op, arg, pre, tag0
vars == <<mem, heap, live, out, calls, op, arg, pre, tag0>>

\* ---- derived PartialEq / Ord ---------------------------------------------
\* fault: Some and Excluding declared in the other order
MutDiscr(q) ==
  CASE q.tag = "None" -> 0
    [] q.tag = "Excluding" -> 1
    [] q.tag = "Some" -> 2
    [] q.tag = "All" -> 3

\* discriminant: the position of the variant in the declaration
Discr(q) ==
  CASE q.tag = "None" -> 0
    [] q.tag = "Some" -> 1
    [] q.tag = "Excluding" -> 2
    [] q.tag = "All" -> 3

\* i32's own order
PCmp(a, b) == IF a < b THEN "Less" ELSE IF a > b THEN "Greater" ELSE "Equal"

\* #[derive(PartialOrd, Ord)]: discriminants first, then the fields
Cmp(a, b) ==
  IF Discr(a) < Discr(b) THEN "Less"
  ELSE IF Discr(a) > Discr(b) THEN "Greater"
  ELSE IF HasPayload(a) THEN PCmp(a.val, b.val)
  ELSE "Equal"

\* #[derive(PartialEq, Eq)]: same variant and equal fields
QEq(a, b) ==
  /\ Discr(a) = Discr(b)
  /\ HasPayload(a) => a.val = b.val

\* ---- map -----------------------------------------------------------------
\* fault: the two payload arms build each other's variant
MutMap(q, f) ==
  CASE q.tag = "Some" -> [res |-> ExcludingQ(f[q.val]), calls |-> <<q.val>>]
    [] q.tag = "Excluding" -> [res |-> SomeQ(f[q.val]), calls |-> <<q.val>>]
    [] q.tag = "None" -> [res |-> NoneQ, calls |-> <<>>]
    [] q.tag = "All" -> [res |-> AllQ, calls |-> <<>>]

\* fault: f applied twice
MutMapTwice(q, f) ==
  CASE q.tag = "Some" -> [res |-> SomeQ(f[f[q.val]]), calls |-> <<q.val, f[q.val]>>]
    [] q.tag = "Excluding" -> [res |-> ExcludingQ(f[f[q.val]]), calls |-> <<q.val, f[q.val]>>]
    [] q.tag = "None" -> [res |-> NoneQ, calls |-> <<>>]
    [] q.tag = "All" -> [res |-> AllQ, calls |-> <<>>]

\* fault: All falls into the None arm
MutMapNone(q, f) ==
  CASE q.tag = "Some" -> [res |-> SomeQ(f[q.val]), calls |-> <<q.val>>]
    [] q.tag = "Excluding" -> [res |-> ExcludingQ(f[q.val]), calls |-> <<q.val>>]
    [] q.tag = "None" -> [res |-> NoneQ, calls |-> <<>>]
    [] q.tag = "All" -> [res |-> NoneQ, calls |-> <<>>]

\* res is the returned value, calls the arguments f was invoked with, in order;
\* the FnOnce f is a function value applied as f[x]
Map(q, f) ==
  CASE q.tag = "Some" -> [res |-> SomeQ(f[q.val]), calls |-> <<q.val>>]
    [] q.tag = "Excluding" -> [res |-> ExcludingQ(f[q.val]), calls |-> <<q.val>>]
    [] q.tag = "None" -> [res |-> NoneQ, calls |-> <<>>]
    [] q.tag = "All" -> [res |-> AllQ, calls |-> <<>>]

\* ---- references ----------------------------------------------------------
\* the place of the payload field of the instance held by variable self
PayloadRef(self, m) == [var |-> self, mut |-> m]
Load(r) == mem[r.var].val

\* fault: the write replaces the whole instance
MutStore(r, v) == [mem EXCEPT ![r.var] = SomeQ(v)]

\* `*r = v` through a `&mut T`
Store(r, v) == [mem EXCEPT ![r.var].val = v]

\* fault: the payload arms swapped
MutAsRef(self) ==
  LET q == mem[self] IN
  CASE q.tag = "None" -> NoneQ
    [] q.tag = "Some" -> ExcludingQ(PayloadRef(self, FALSE))
    [] q.tag = "Excluding" -> SomeQ(PayloadRef(self, FALSE))
    [] q.tag = "All" -> AllQ

AsRef(self) ==
  LET q == mem[self] IN
  CASE q.tag = "None" -> NoneQ
    [] q.tag = "Some" -> SomeQ(PayloadRef(self, FALSE))
    [] q.tag = "Excluding" -> ExcludingQ(PayloadRef(self, FALSE))
    [] q.tag = "All" -> AllQ

\* fault: Excluding handed out as Some
MutAsMut(self) ==
  LET q == mem[self] IN
  CASE q.tag = "None" -> NoneQ
    [] q.tag = "Some" -> SomeQ(PayloadRef(self, TRUE))
    [] q.tag = "Excluding" -> SomeQ(PayloadRef(self, TRUE))
    [] q.tag = "All" -> AllQ

AsMut(self) ==
  LET q == mem[self] IN
  CASE q.tag = "None" -> NoneQ
    [] q.tag = "Some" -> SomeQ(PayloadRef(self, TRUE))
    [] q.tag = "Excluding" -> ExcludingQ(PayloadRef(self, TRUE))
    [] q.tag = "All" -> AllQ

\* ---- String / str --------------------------------------------------------
\* the bytes a `&str` denotes
View(sl) == SubSeq(heap[sl.ptr], 1, sl.len)
\* the bytes an owned String holds
Content(s) == SubSeq(heap[s.ptr], 1, s.len)

\* fault: the view misses the last byte
MutStringDeref(t) ==
  LET s == Load(t) IN [ptr |-> s.ptr, len |-> IF s.len > 0 THEN s.len - 1 ELSE 0, mut |-> FALSE]

\* |t| t.deref() : &String -> &str
StringDeref(t) ==
  LET s == Load(t) IN [ptr |-> s.ptr, len |-> s.len, mut |-> FALSE]

\* |t| t.deref_mut() : &mut String -> &mut str
StringDerefMut(t) ==
  LET s == Load(t) IN [ptr |-> s.ptr, len |-> s.len, mut |-> TRUE]

AsDeref(self) == Map(AsRef(self), [t \in {PayloadRef(self, FALSE)} |-> StringDeref(t)])

\* fault: the mutable view misses the last byte
MutAsDerefMut(self) ==
  Map(AsMut(self), [t \in {PayloadRef(self, TRUE)} |-> [StringDerefMut(t) EXCEPT !.len = IF @ > 0 THEN @ - 1 ELSE 0]])

AsDerefMut(self) == Map(AsMut(self), [t \in {PayloadRef(self, TRUE)} |-> StringDerefMut(t)])

ToUpper(c) == IF c \in 97..122 THEN c - 32 ELSE c

\* x.make_ascii_uppercase() through a `&mut str`
MakeAsciiUppercase(sl) ==
  [heap EXCEPT ![sl.ptr] = [i \in DOMAIN @ |-> IF i <= sl.len THEN ToUpper(@[i]) ELSE @[i]]]

\* ---- the functions handed to map -----------------------------------------
Id == [v \in Val |-> v]
Succ == [v \in Val |-> (v + 1) % (MaxVal + 1)]
Rev == [v \in Val |-> MaxVal - v]
Half == [v \in Val |-> v \div 2]
Fns == {Id, Succ, Rev, Half} \cup {[v \in Val |-> k] : k \in Val}
Compose(g, f) == [v \in Val |-> g[f[v]]]

\* ---- construction --------------------------------------------------------
\* String::from(c) placed in buffer a
NewString(c, a) == [ptr |-> a, len |-> Len(c), cap |-> Len(c)]
HeapWith(c, a) == [b \in Addrs |-> IF b = a THEN c ELSE <<>>]
Snapshot == [mem |-> mem, heap |-> heap, live |-> live]
Unit == [tag |-> "Unit"]

Init ==
  /\ \E q \in Quantified(Val), t \in Tags, c \in Strings, a \in Addrs :
       /\ mem = [x |-> q,
                 text |-> CASE t = "None" -> NoneQ
                            [] t = "Some" -> SomeQ(NewString(c, a))
                            [] t = "Excluding" -> ExcludingQ(NewString(c, a))
                            [] t = "All" -> AllQ]
       /\ heap = IF t \in {"Some", "Excluding"} THEN HeapWith(c, a) ELSE HeapWith(<<>>, a)
       /\ tag0 = [x |-> q.tag, text |-> t]
  /\ live = Vars
  /\ out = Unit
  /\ calls = <<>>
  /\ op = "new"
  /\ arg = Unit
  /\ pre = [mem |-> mem, heap |-> heap, live |-> live]

\* let x = <variant>(value);
NewX(q) ==
  /\ mem' = [mem EXCEPT !["x"] = q]
  /\ tag0' = [tag0 EXCEPT !["x"] = q.tag]
  /\ live' = live \cup {"x"}
  /\ out' = Unit
  /\ calls' = <<>>
  /\ op' = "new"
  /\ arg' = Unit
  /\ pre' = Snapshot
  /\ UNCHANGED heap

\* let out = x.map(f);   -- x is moved into map
MapOp(f) ==
  /\ "x" \in live
  /\ LET r == Map(mem["x"], f) IN
       /\ out' = r.res
       /\ calls' = r.calls
  /\ live' = live \ {"x"}
  /\ op' = "map"
  /\ arg' = f
  /\ pre' = Snapshot
  /\ UNCHANGED <<mem, heap, tag0>>

\* let out = v.as_ref();
AsRefOp(v) ==
  /\ v \in live
  /\ out' = AsRef(v)
  /\ calls' = <<>>
  /\ op' = "as_ref"
  /\ arg' = v
  /\ pre' = Snapshot
  /\ UNCHANGED <<mem, heap, live, tag0>>

\* fault: map called on x itself, consuming it
MutAsRefMapOp(f) ==
  /\ "x" \in live
  /\ LET r == Map(mem["x"], f) IN
       /\ out' = r.res
       /\ calls' = r.calls
  /\ live' = live \ {"x"}
  /\ op' = "as_ref_map"
  /\ arg' = f
  /\ pre' = Snapshot
  /\ UNCHANGED <<mem, heap, tag0>>

\* let out = x.as_ref().map(|r| f(*r));
AsRefMapOp(f) ==
  /\ "x" \in live
  /\ LET r == Map(AsRef("x"), [t \in {PayloadRef("x", FALSE)} |-> f[Load(t)]]) IN
       /\ out' = r.res
       /\ calls' = r.calls
  /\ op' = "as_ref_map"
  /\ arg' = f
  /\ pre' = Snapshot
  /\ UNCHANGED <<mem, heap, live, tag0>>

\* let out = text.as_ref().map(|s| s.len());
AsRefLenOp ==
  /\ "text" \in live
  /\ LET r == Map(AsRef("text"), [t \in {PayloadRef("text", FALSE)} |-> Load(t).len]) IN
       /\ out' = r.res
       /\ calls' = r.calls
  /\ op' = "as_ref_len"
  /\ arg' = Unit
  /\ pre' = Snapshot
  /\ UNCHANGED <<mem, heap, live, tag0>>

\* let out = v.as_mut();
AsMutOp(v) ==
  /\ v \in live
  /\ out' = AsMut(v)
  /\ calls' = <<>>
  /\ op' = "as_mut"
  /\ arg' = v
  /\ pre' = Snapshot
  /\ UNCHANGED <<mem, heap, live, tag0>>

\* match out { Some(r) | Excluding(r) => *r = n, .. }
WriteOp(n) ==
  /\ op \in {"as_mut", "write"}
  /\ HasPayload(out)
  /\ out.val.var = "x"
  /\ mem' = Store(out.val, n)
  /\ op' = "write"
  /\ arg' = n
  /\ pre' = Snapshot
  /\ UNCHANGED <<heap, live, out, calls, tag0>>

\* let out = text.as_deref();
AsDerefOp ==
  /\ "text" \in live
  /\ LET r == AsDeref("text") IN
       /\ out' = r.res
       /\ calls' = r.calls
  /\ op' = "as_deref"
  /\ arg' = Unit
  /\ pre' = Snapshot
  /\ UNCHANGED <<mem, heap, live, tag0>>

\* let out = text.as_deref_mut();
AsDerefMutOp ==
  /\ "text" \in live
  /\ LET r == AsDerefMut("text") IN
       /\ out' = r.res
       /\ calls' = r.calls
  /\ op' = "as_deref_mut"
  /\ arg' = Unit
  /\ pre' = Snapshot
  /\ UNCHANGED <<mem, heap, live, tag0>>

\* out.map(|s| { s.make_ascii_uppercase(); s })
UppercaseOp ==
  /\ op \in {"as_deref_mut", "uppercase"}
  /\ HasPayload(out)
  /\ heap' = MakeAsciiUppercase(out.val)
  /\ op' = "uppercase"
  /\ arg' = Unit
  /\ pre' = Snapshot
  /\ UNCHANGED <<mem, live, out, calls, tag0>>

\* let out = (x.cmp(&b), x == b);
CompareOp(b) ==
  /\ "x" \in live
  /\ out' = [ord |-> Cmp(mem["x"], b), eq |-> QEq(mem["x"], b)]
  /\ calls' = <<>>
  /\ op' = "cmp"
  /\ arg' = b
  /\ pre' = Snapshot
  /\ UNCHANGED <<mem, heap, live, tag0>>

Next ==
  \/ \E q \in Quantified(Val) : NewX(q)
  \/ \E f \in Fns : MapOp(f)
  \/ \E v \in Vars : AsRefOp(v)
  \/ \E f \in Fns : AsRefMapOp(f)
  \/ AsRefLenOp
  \/ \E v \in Vars : AsMutOp(v)
  \/ \E n \in Val : WriteOp(n)
  \/ AsDerefOp
  \/ AsDerefMutOp
  \/ UppercaseOp
  \/ \E b \in Quantified(Val) : CompareOp(b)

Spec == Init /\ [][Next]_vars

\* ---- properties ----------------------------------------------------------
UpperSeq(c) == [i \in DOMAIN c |-> ToUpper(c[i])]
PreContent(s) == SubSeq(pre.heap[s.ptr], 1, s.len)

\* C1: map sends Some(x) to Some(f(x)), Excluding(x) to Excluding(f(x)),
\* None to None and All to All; the result's tag is the input's tag.
C1_MapContract ==
  op = "map" =>
    LET q == pre.mem["x"] IN
      /\ out.tag = q.tag
      /\ q.tag = "Some" => out = SomeQ(arg[q.val])
      /\ q.tag = "Excluding" => out = ExcludingQ(arg[q.val])
      /\ q.tag = "None" => out = NoneQ
      /\ q.tag = "All" => out = AllQ

C1_Witness ==
  /\ op = "map"
  /\ pre.mem["x"] = ExcludingQ(1)
  /\ arg = Succ
  /\ out = ExcludingQ(2)

\* C2: one call to map invokes f exactly once, on the instance's own payload,
\* when the instance is Some or Excluding, and not at all when it is None or All.
C2_MapCallsOnce ==
  op = "map" =>
    LET q == pre.mem["x"] IN
      /\ Len(calls) <= 1
      /\ HasPayload(q) => calls = <<q.val>>
      /\ ~HasPayload(q) => calls = <<>>

C2_Witness ==
  /\ op = "map"
  /\ pre.mem["x"] = SomeQ(1)
  /\ arg = Rev
  /\ calls = <<1>>

\* C3: as_ref returns the instance's tag with a shared reference to the
\* instance's own payload field; reading through it gives the payload, and
\* as_ref().map(identity on the referent) carries the payload's value.
C3_AsRefMirrors ==
  /\ op = "as_ref" =>
       LET q == mem[arg] IN
         /\ out.tag = q.tag
         /\ HasPayload(q) => /\ out.val = [var |-> arg, mut |-> FALSE]
                             /\ Load(out.val) = q.val
         /\ ~HasPayload(q) => out = q
  /\ (op = "as_ref_map" /\ arg = Id) => out = mem["x"]

C3_Witness ==
  /\ op = "as_ref"
  /\ arg = "text"
  /\ mem["text"].tag = "Excluding"
  /\ out.tag = "Excluding"
  /\ mem["text"].val.len = MaxLen

\* C4: after q.as_ref().map(f) with a reading f, and after q.as_deref(), the
\* instance q has the tag and payload it had before and is still usable.
C4_BorrowLeavesInstance ==
  op \in {"as_ref_map", "as_ref_len", "as_deref"} =>
    /\ mem = pre.mem
    /\ heap = pre.heap
    /\ live = pre.live

C4_Witness ==
  /\ op = "as_ref_map"
  /\ mem["x"] = SomeQ(1)
  /\ arg = Succ
  /\ out = SomeQ(2)
  /\ "x" \in live

\* C5: as_mut returns the instance's tag with a mutable reference aliasing the
\* instance's payload: writing v through it leaves the same variant carrying
\* v; for None and All there is no reference and the instance is unchanged.
C5_AsMutAliases ==
  /\ op = "as_mut" =>
       LET q == mem[arg] IN
         /\ out.tag = q.tag
         /\ HasPayload(q) => out.val = [var |-> arg, mut |-> TRUE]
         /\ ~HasPayload(q) => out = q
         /\ mem = pre.mem
  /\ op = "write" =>
       /\ mem["x"] = [tag |-> pre.mem["x"].tag, val |-> arg]
       /\ mem["text"] = pre.mem["text"]
       /\ heap = pre.heap

C5_Witness ==
  /\ op = "write"
  /\ pre.mem["x"] = ExcludingQ(2)
  /\ arg = 0
  /\ mem["x"] = ExcludingQ(0)

\* C6: as_deref yields Some(view of the owned string) for Some, Excluding(view)
\* for Excluding, None for None and All for All, the view being a shared str
\* over the bytes of the owned String.
C6_AsDerefViews ==
  op = "as_deref" =>
    LET q == mem["text"] IN
      /\ out.tag = q.tag
      /\ HasPayload(q) => /\ View(out.val) = Content(q.val)
                          /\ out.val.ptr = q.val.ptr
                          /\ out.val.mut = FALSE
      /\ ~HasPayload(q) => out = q

C6_Witness ==
  /\ op = "as_deref"
  /\ mem["text"].tag = "Some"
  /\ out.tag = "Some"
  /\ View(out.val) = <<104, 33>>

\* C7: as_deref_mut yields the instance's tag with a mutable str over the
\* String's bytes, and upper-casing through it is seen in the instance, which
\* keeps its tag.
C7_AsDerefMutVisible ==
  /\ op = "as_deref_mut" =>
       LET q == mem["text"] IN
         /\ out.tag = q.tag
         /\ HasPayload(q) => /\ View(out.val) = Content(q.val)
                             /\ out.val.ptr = q.val.ptr
                             /\ out.val.mut = TRUE
         /\ ~HasPayload(q) => out = q
  /\ op = "uppercase" =>
       /\ mem = pre.mem
       /\ Content(mem["text"].val) = UpperSeq(PreContent(mem["text"].val))

C7_Witness ==
  /\ op = "uppercase"
  /\ mem["text"].tag = "Excluding"
  /\ PreContent(mem["text"].val) = <<104, 104>>
  /\ Content(mem["text"].val) = <<72, 72>>

\* C8: the derived order compares the tag first (None < Some < Excluding < All
\* whatever the payloads) and the payload second; equality is that of tag and
\* payload, so Some(x) never equals Excluding(x).
C8_DerivedOrder ==
  op = "cmp" =>
    LET a == mem["x"]
        b == arg
    IN
      /\ (a.tag = "None" /\ b.tag \in {"Some", "Excluding", "All"}) => out.ord = "Less"
      /\ (a.tag = "Some" /\ b.tag \in {"Excluding", "All"}) => out.ord = "Less"
      /\ (a.tag = "Excluding" /\ b.tag = "All") => out.ord = "Less"
      /\ (b.tag = "None" /\ a.tag \in {"Some", "Excluding", "All"}) => out.ord = "Greater"
      /\ (b.tag = "Some" /\ a.tag \in {"Excluding", "All"}) => out.ord = "Greater"
      /\ (b.tag = "Excluding" /\ a.tag = "All") => out.ord = "Greater"
      /\ (a.tag = b.tag /\ HasPayload(a)) =>
           /\ (out.ord = "Less") = (a.val < b.val)
           /\ (out.ord = "Greater") = (a.val > b.val)
           /\ (out.ord = "Equal") = (a.val = b.val)
           /\ out.eq = (a.val = b.val)
      /\ (a.tag = b.tag /\ ~HasPayload(a)) => (out.ord = "Equal" /\ out.eq)
      /\ a.tag # b.tag => ~out.eq
      /\ out.eq = (out.ord = "Equal")

C8_Witness ==
  /\ op = "cmp"
  /\ mem["x"] = SomeQ(2)
  /\ arg = ExcludingQ(0)
  /\ out.ord = "Less"
  /\ ~out.eq

\* C9: whatever borrows are taken and whatever is written through them, a live
\* instance keeps the tag it was created with.
C9_TagStable ==
  \A v \in live : mem[v].tag = tag0[v]

C9_Witness ==
  /\ op = "write"
  /\ tag0["x"] = "Excluding"
  /\ pre.mem["x"].val # mem["x"].val
  /\ mem["x"].tag = "Excluding"

\* C10: map obeys the functor laws: q.map(identity) = q, and
\* q.map(f).map(g) = q.map(g after f).
C10_FunctorLaws ==
  op = "map" =>
    LET q == pre.mem["x"] IN
      /\ arg = Id => out = q
      /\ \A g \in Fns :
           Map(out, g).res = Map(q, Compose(g, arg)).res

C10_Witness ==
  /\ op = "map"
  /\ pre.mem["x"] = AllQ
  /\ arg = Id
  /\ out = AllQ

====
